---- MODULE Spec2Model ----
(***************************************************************************)
(* Model of the HADAHANA AI web application:                               *)
(*   - the AI service layer (credential resolver, prompt builders and the  *)
(*     four invocation functions), in its two captured variants:           *)
(*       "generate" : src/unnamed/part_001 (@google/genai, one             *)
(*                    generateContent call replaying the history)          *)
(*       "chat"     : src/unnamed/part_000 (@google/generative-ai,         *)
(*                    startChat + sendMessage)                             *)
(*   - the auth context (src/context/AuthContext.tsx)                      *)
(*   - the admin dashboard's key panel (src/unnamed/part_002)              *)
(*                                                                         *)
(* Texts are sequences of tokens.  The characters the sanitizer's regular  *)
(* expressions look at are one-character tokens; a fixed string of the     *)
(* source that holds no backtick (a fallback message, a language           *)
(* directive, a prompt fragment) is one opaque token.  Strings of the      *)
(* source written in Sinhala are named by an ASCII token in angle          *)
(* brackets.                                                               *)
(***************************************************************************)
EXTENDS Integers, Sequences, FiniteSets, TLC

VARIABLES
  \* ---- environment and document store
  env,          \* process.env / import.meta.env: the two key variables
  configDoc,    \* settings/global_config: [exists, geminiApiKey]
  \* ---- one call of an invocation function of the AI service layer
  aiPc,         \* "idle" | "client" (awaiting getDoc) | "request" | "done"
  aiCall,       \* [module, fn, lang, ...arguments]
  aiKey,        \* the apiKey the client was built with
  aiRead,       \* how the config read of getAIClient settled
  aiRequest,    \* the request in flight (what generateContent was given)
  aiRequests,   \* number of requests this call has issued
  aiResponse,   \* what the generation API answered
  aiResult,     \* what the call returned: resolved value or rejection
  \* ---- external auth provider and the users collection
  accounts,     \* the accounts registered with the auth provider
  session,      \* auth.currentUser: an account, or Null
  profiles,     \* the documents of the users collection
  authEvents,   \* session changes the provider has not yet told the listener
  \* ---- AuthProvider
  mounted,      \* "no" | "yes" (subscribed) | "gone" (unsubscribed)
  user,         \* useState<User | null>
  loading,      \* useState(true)
  loginOp,      \* [pc, email, result] of login
  signupOp,     \* [pc, name, email, result] of signup
  logoutOp,     \* [pc, result] of logout
  \* ---- AdminDashboard
  adminMounted,     \* has the mount effect run
  geminiKeyStatus,  \* useState<string | null>(null)
  newGeminiKey,     \* the key input
  keyLoading,       \* useState(false)
  users,            \* the listed profile documents
  alertShown,       \* the text of the last alert() dialog, "" before any
  loadOp,           \* [pc, logged] of the mount effect's loadGlobalConfig
  refreshOp,        \* [pc, by] of refreshUsers: by is who started it
  saveOp,           \* [pc, key, result, logged] of handleSaveGeminiKey
  deleteOp          \* [pc, result, logged] of handleDeleteGeminiKey;
                    \* logged is what the handler's reload wrote to the console

aiVars == <<aiPc, aiCall, aiKey, aiRead, aiRequest, aiRequests, aiResponse, aiResult>>
storeVars == <<env, configDoc>>
authVars == <<accounts, session, profiles, authEvents, mounted, user, loading,
              loginOp, signupOp, logoutOp>>
adminVars == <<adminMounted, geminiKeyStatus, newGeminiKey, keyLoading, users,
               alertShown, loadOp, refreshOp, saveOp, deleteOp>>
vars == <<storeVars, aiVars, authVars, adminVars>>

(***************************************************************************)
(* Bounds                                                                  *)
(***************************************************************************)
MaxChunks == 3     \* chunks a generated text is put together from
MaxHistory == 2    \* prior conversation turns
MaxImages == 2     \* newly attached images
MaxEvents == 1     \* session changes waiting to be delivered

(***************************************************************************)
(* JavaScript values                                                       *)
(***************************************************************************)
Undefined == "<undefined>"

Truthy(v) == v # Undefined /\ v # ""

\* a || b
Or(a, b) == IF Truthy(a) THEN a ELSE b

RECURSIVE SeqsUpTo(_, _)
SeqsUpTo(S, n) ==
  IF n = 0 THEN {<<>>}
  ELSE LET shorter == SeqsUpTo(S, n - 1)
       IN shorter \cup {s \o <<x>> : s \in shorter, x \in S}

RECURSIVE Concat(_)
Concat(ss) == IF ss = <<>> THEN <<>> ELSE Head(ss) \o Concat(Tail(ss))

(***************************************************************************)
(* Credential resolver                                                     *)
(***************************************************************************)
EnvKeys == {Undefined, "", "env-vite-key"}
ApiKeys == {Undefined, "env-api-key"}
DocKeys == {Undefined, "", "db-key"}

Envs == [VITE_GEMINI_API_KEY : EnvKeys, API_KEY : ApiKeys]

ConfigDocs ==
  {[exists |-> FALSE, geminiApiKey |-> Undefined]} \cup
  {[exists |-> TRUE, geminiApiKey |-> k] : k \in DocKeys}

\* the first assignment of apiKey
EnvDefault == Or(env.VITE_GEMINI_API_KEY, env.API_KEY)

\* what awaiting getDoc(docRef) gives: a snapshot, or a thrown error
ReadOk(d) ==
  [ok |-> TRUE, exists |-> d.exists, geminiApiKey |-> d.geminiApiKey, done |-> TRUE]
ReadFailed ==
  [ok |-> FALSE, exists |-> FALSE, geminiApiKey |-> Undefined, done |-> TRUE]
Reads(d) == {ReadOk(d), ReadFailed}

getAIClientIgnoresStore(read) ==
  [threw |-> FALSE, apiKey |-> Or(EnvDefault, "")]

getAIClientEnvWins(read) ==
  [threw |-> FALSE,
   apiKey |-> Or(Or(EnvDefault,
                    IF read.ok /\ read.exists THEN read.geminiApiKey ELSE Undefined),
                 "")]

getAIClientRethrows(read) ==
  IF read.ok
  THEN [threw |-> FALSE,
        apiKey |-> Or(IF read.exists /\ Truthy(read.geminiApiKey)
                      THEN read.geminiApiKey ELSE EnvDefault, "")]
  ELSE [threw |-> TRUE, apiKey |-> Undefined]

\* getAIClient, given the outcome of its one read: the key the client is
\* built with.  A failed read lands in the catch block, which only warns.
getAIClient(read) ==
  LET apiKey == IF read.ok /\ read.exists /\ Truthy(read.geminiApiKey)
                THEN read.geminiApiKey
                ELSE EnvDefault
  IN [threw |-> FALSE, apiKey |-> Or(apiKey, "")]

(***************************************************************************)
(* Response sanitizer                                                      *)
(***************************************************************************)
\* the backtick character (the tools do not read one inside a string)
BT == "<backtick>"

Fence == <<BT, BT, BT>>
FenceHtml == Fence \o <<"h", "t", "m", "l">>

\* String.prototype.replace(/pat/g, ''): every match, scanning left to
\* right, matches never overlapping, the result never scanned again.
RECURSIVE ReplaceAll(_, _)
ReplaceAll(s, pat) ==
  IF Len(s) < Len(pat) THEN s
  ELSE IF SubSeq(s, 1, Len(pat)) = pat
       THEN ReplaceAll(SubSeq(s, Len(pat) + 1, Len(s)), pat)
       ELSE <<Head(s)>> \o ReplaceAll(Tail(s), pat)

CleanHtmlFenceOnly(text) == ReplaceAll(text, FenceHtml)

\* .replace(/<fence>html/g, '').replace(/<fence>/g, ''), <fence> being three backticks
Clean(text) == ReplaceAll(ReplaceAll(text, FenceHtml), Fence)

\* text.includes(pat)
Includes(text, pat) ==
  \E i \in 1..(Len(text) - Len(pat) + 1) :
    SubSeq(text, i, i + Len(pat) - 1) = pat

(***************************************************************************)
(* Prompt builders                                                         *)
(***************************************************************************)
SYSTEM_INSTRUCTION == "<persona: Hadahana AI, Digital Rishi>"

SI_DIRECTIVE == "<si: Language: please answer in 'pure Sinhala' (Formal Sinhala).>"
EN_DIRECTIVE == "Language: Please respond in English, but maintain the highly respectful, spiritual, and professional 'Guru' tone."

Modules == {"generate", "chat"}
Languages == {"si", "en", "ta"}

ModelName(module) ==
  IF module = "generate" THEN "models/gemini-1.5-flash" ELSE "gemini-1.5-flash"

\* A data URI, as the segments its commas separate it into.
ImageA == <<"data:image/jpeg;base64", "QUFB">>
ImageB == <<"data:image/png;base64", "QkJC">>
ImageBare == <<"Q0ND">>
ImageUris == {ImageA, ImageBare}

\* img.split(',')[1]
SplitComma1(img) == IF Len(img) >= 2 THEN img[2] ELSE Undefined

ImagePart(img) ==
  [inlineData |-> [mimeType |-> "image/jpeg", data |-> SplitComma1(img)]]

TextPart(text) == [text |-> text]

ImageParts(imgs) == [i \in 1..Len(imgs) |-> ImagePart(imgs[i])]

IsTextPart(p) == "text" \in DOMAIN p
IsImagePart(p) == "inlineData" \in DOMAIN p

\* ChatMessage: role, text, and an optional list of images
ChatMessages ==
  {[role |-> "user", text |-> <<"q1">>],
   [role |-> "model", text |-> <<"a1">>, images |-> <<>>],
   [role |-> "user", text |-> <<"q2">>, images |-> <<ImageB, ImageBare>>]}

\* msg.images || []
ImagesOf(msg) == IF "images" \in DOMAIN msg THEN msg.images ELSE <<>>

HistoryRole(module, role) ==
  IF module = "chat" THEN (IF role = "user" THEN "user" ELSE "model") ELSE role

HistoryTurnTextOnly(module, msg) ==
  [role |-> HistoryRole(module, msg.role), parts |-> <<TextPart(msg.text)>>]

\* one element of history.map(msg => ({ role, parts: [text, ...images] }))
HistoryTurn(module, msg) ==
  [role |-> HistoryRole(module, msg.role),
   parts |-> <<TextPart(msg.text)>> \o ImageParts(ImagesOf(msg))]

LangInstructionAlwaysEnglish(outputLang) == EN_DIRECTIVE

LangInstruction(outputLang) ==
  IF outputLang = "si" THEN SI_DIRECTIVE ELSE EN_DIRECTIVE

LangName(lang) == IF lang = "si" THEN "Sinhala" ELSE "English"

\* the clock reading taken by new Date(), formatted in si-LK
Clocks == {[dateString |-> "<si-LK date>", timeString |-> "<si-LK time>"]}

\* systemContext, blank line, langInstruction, blank line, label and userMessage
ComposedText(now, outputLang, userMessage) ==
  <<"[SYSTEM_DATA]: CURRENT_DATE = ", now.dateString,
    ", CURRENT_TIME = ", now.timeString, "\n\n",
    LangInstruction(outputLang), "\n\n",
    "<si: the user's current message>: ", userMessage>>

\* the parts of the new turn: the generate variant pushes the images first
\* and the text last, the chat variant the text first
CurrentParts(module, images, text) ==
  IF module = "generate"
  THEN ImageParts(images) \o <<TextPart(text)>>
  ELSE <<TextPart(text)>> \o ImageParts(images)

HoroscopePrompt(data, lang) ==
  <<"Language: ", LangName(lang),
    "\n\nPerform a full horoscope reading based on:\nDOB: ", data.dob,
    "\nTime: ", data.tob, "\nPlace: ", data.pob,
    "\n\nIMPORTANT: Respond in valid HTML using the specified classes.">>

PorondamPrompt(data, lang) ==
  <<"Language: ", LangName(lang),
    "\n\nCheck Porondam compatibility for:\nGroom: ", data.groomName,
    " (", data.groomNakshatra, ")\nBride: ", data.brideName,
    " (", data.brideNakshatra, ")",
    "\n\nIMPORTANT: Respond in valid HTML using the specified classes.">>

ManuscriptPrompt(lang) ==
  <<"Language: ", LangName(lang),
    "\n\nAnalyze this manuscript.\nIMPORTANT: Respond in valid HTML using the specified classes.">>

\* A request as the generation service receives it: the model, the persona
\* instruction and the turns.  A bare prompt string or a bare {parts} object
\* is one turn that names no role.
Request(module, turns) ==
  [model |-> ModelName(module),
   systemInstruction |-> SYSTEM_INSTRUCTION,
   contents |-> turns]

analyzeHoroscopeAdvancedRequest(c) ==
  Request(c.module,
    [i \in 1..Len(c.history) |-> HistoryTurn(c.module, c.history[i])]
    \o <<[role |-> "user",
          parts |-> CurrentParts(c.module, c.images,
                      ComposedText(c.now, c.lang, c.userMessage))]>>)

getHoroscopeReadingRequest(c) ==
  Request(c.module,
    <<[role |-> Undefined, parts |-> <<TextPart(HoroscopePrompt(c.data, c.lang))>>]>>)

getPorondamReadingRequest(c) ==
  Request(c.module,
    <<[role |-> Undefined, parts |-> <<TextPart(PorondamPrompt(c.data, c.lang))>>]>>)

analyzeAncientManuscriptRequest(c) ==
  Request(c.module,
    <<[role |-> Undefined,
       parts |-> <<ImagePart(c.image), TextPart(ManuscriptPrompt(c.lang))>>]>>)

BuildRequest(c) ==
  CASE c.fn = "analyzeHoroscopeAdvanced" -> analyzeHoroscopeAdvancedRequest(c)
    [] c.fn = "getHoroscopeReading" -> getHoroscopeReadingRequest(c)
    [] c.fn = "getPorondamReading" -> getPorondamReadingRequest(c)
    [] c.fn = "analyzeAncientManuscript" -> analyzeAncientManuscriptRequest(c)

(***************************************************************************)
(* Invocation functions: inputs                                            *)
(***************************************************************************)
UserMessages == {"<user message>"}

HoroscopeInputs == {[dob |-> "1990-04-14", tob |-> "06:30", pob |-> "Kandy"]}

PorondamInputs ==
  {[groomName |-> "Nimal", groomNakshatra |-> "Aswida",
    brideName |-> "Kumari", brideNakshatra |-> "Rehena"]}

AdvancedCalls ==
  [module : Modules, fn : {"analyzeHoroscopeAdvanced"}, lang : Languages,
   images : SeqsUpTo(ImageUris, MaxImages), userMessage : UserMessages,
   history : SeqsUpTo(ChatMessages, MaxHistory), now : Clocks]

HoroscopeCalls ==
  [module : Modules, fn : {"getHoroscopeReading"}, lang : Languages,
   data : HoroscopeInputs]

PorondamCalls ==
  [module : Modules, fn : {"getPorondamReading"}, lang : Languages,
   data : PorondamInputs]

ManuscriptCalls ==
  [module : Modules, fn : {"analyzeAncientManuscript"}, lang : Languages,
   image : ImageUris]

\* the texts the generation API may answer with
Chunks == {<<BT>>, <<BT, BT>>, FenceHtml, <<"h", "t", "m", "l">>, <<"x">>}
Texts == {Concat(cs) : cs \in SeqsUpTo(Chunks, MaxChunks)}

\* a few answers, among them a fenced one, for the runs that vary the
\* environment, the config document and the arguments
SampleTexts == {<<>>, <<"x">>, FenceHtml \o <<"x">> \o Fence}

TextResponse(t) == [kind |-> "text", text |-> t]
NoTextResponse == [kind |-> "notext"]
Answers(texts) == {TextResponse(t) : t \in texts} \cup {NoTextResponse}
ApiErrors == {"api-error"}

NoCall == [fn |-> "none"]
NoRequest == [model |-> "none"]
NoResponse == [kind |-> "none"]
NoResult == [status |-> "none"]
NoRead == [ok |-> FALSE, exists |-> FALSE, geminiApiKey |-> Undefined, done |-> FALSE]

Resolved(v) == [status |-> "resolved", value |-> v]
Rejected(e) == [status |-> "rejected", error |-> e]

(***************************************************************************)
(* Invocation functions: post-processing                                   *)
(***************************************************************************)
Fallback(fn) ==
  CASE fn = "analyzeHoroscopeAdvanced" ->
         <<"<si: A communication error occurred. Please try again in a little while.>">>
    [] fn = "getHoroscopeReading" -> <<"Reading failed.">>
    [] fn = "getPorondamReading" -> <<"Compatibility check failed.">>
    [] fn = "analyzeAncientManuscript" -> <<"Manuscript analysis failed.">>

\* The text post-processing starts from.  generate: response.text || fallback
\* (text is a property, undefined when the answer carries none).  chat:
\* response.text(), a method that gives the empty string when the answer
\* carries no text; no fallback is applied.
ResponseText(module, fn, r) ==
  IF module = "generate"
  THEN IF r.kind = "text" /\ r.text # <<>> THEN r.text ELSE Fallback(fn)
  ELSE IF r.kind = "text" THEN r.text ELSE <<>>

Returned(module, fn, r) == Resolved(Clean(ResponseText(module, fn, r)))

\* what the function does when the awaited generation call throws: nothing
\* catches it, the rejection reaches the caller
OnApiErrorRetry(requests, e) ==
  IF requests < 2
  THEN [pc |-> "request", requests |-> requests + 1, result |-> NoResult]
  ELSE [pc |-> "done", requests |-> requests, result |-> Rejected(e)]

OnApiError(requests, e) ==
  [pc |-> "done", requests |-> requests, result |-> Rejected(e)]

(***************************************************************************)
(* Invocation functions: steps                                             *)
(***************************************************************************)
\* entry of an invocation function up to its first await (getDoc inside
\* getAIClient)
Invoke(c) ==
  /\ aiPc = "idle"
  /\ aiPc' = "client"
  /\ aiCall' = c
  /\ aiKey' = Undefined
  /\ aiRead' = NoRead
  /\ aiRequest' = NoRequest
  /\ aiRequests' = 0
  /\ aiResponse' = NoResponse
  /\ aiResult' = NoResult
  /\ UNCHANGED <<storeVars, authVars, adminVars>>

analyzeHoroscopeAdvanced == \E c \in AdvancedCalls : Invoke(c)
getHoroscopeReading == \E c \in HoroscopeCalls : Invoke(c)
getPorondamReading == \E c \in PorondamCalls : Invoke(c)
analyzeAncientManuscript == \E c \in ManuscriptCalls : Invoke(c)

\* getDoc settles with read; getAIClient returns the client; the function
\* builds its prompt and issues the request
ClientReady(read) ==
  /\ aiPc = "client"
  /\ aiRead' = read
  /\ LET client == getAIClient(read)
     IN IF client.threw
        THEN /\ aiPc' = "done"
             /\ aiResult' = Rejected("config-read-error")
             /\ aiCall' = [module |-> aiCall.module, fn |-> aiCall.fn]
             /\ UNCHANGED <<aiKey, aiRequest, aiRequests>>
        ELSE /\ aiPc' = "request"
             /\ aiKey' = client.apiKey
             /\ aiRequest' = BuildRequest(aiCall)
             /\ aiRequests' = aiRequests + 1
             /\ UNCHANGED <<aiCall, aiResult>>
  /\ UNCHANGED <<storeVars, authVars, adminVars, aiResponse>>

ConfigReadSucceeds == ClientReady(ReadOk(configDoc))
ConfigReadFails == ClientReady(ReadFailed)

\* the generation call resolves: post-process and return
GenerationResolves(answers) ==
  /\ aiPc = "request"
  /\ \E r \in answers :
       /\ aiResponse' = r
       /\ aiResult' = Returned(aiCall.module, aiCall.fn, r)
  /\ aiPc' = "done"
  /\ aiCall' = [module |-> aiCall.module, fn |-> aiCall.fn]
  /\ aiRequest' = NoRequest
  /\ UNCHANGED <<storeVars, authVars, adminVars, aiKey, aiRead, aiRequests>>

GenerationReturns == GenerationResolves(Answers(SampleTexts))

\* the generation call throws
GenerationThrows ==
  /\ aiPc = "request"
  /\ \E e \in ApiErrors :
       LET next == OnApiError(aiRequests, e)
       IN /\ aiResponse' = [kind |-> "error", error |-> e]
          /\ aiPc' = next.pc
          /\ aiRequests' = next.requests
          /\ aiResult' = next.result
          /\ IF next.pc = "done"
             THEN /\ aiCall' = [module |-> aiCall.module, fn |-> aiCall.fn]
                  /\ aiRequest' = NoRequest
             ELSE UNCHANGED <<aiCall, aiRequest>>
  /\ UNCHANGED <<storeVars, authVars, adminVars, aiKey, aiRead>>

\* the caller's await takes the settled promise; the call's frame is gone
ResultDelivered ==
  /\ aiPc = "done"
  /\ aiPc' = "idle"
  /\ aiCall' = NoCall
  /\ aiKey' = Undefined
  /\ aiRead' = NoRead
  /\ aiRequest' = NoRequest
  /\ aiRequests' = 0
  /\ aiResponse' = NoResponse
  /\ aiResult' = NoResult
  /\ UNCHANGED <<storeVars, authVars, adminVars>>

AIInit ==
  /\ aiPc = "idle"
  /\ aiCall = NoCall
  /\ aiKey = Undefined
  /\ aiRead = NoRead
  /\ aiRequest = NoRequest
  /\ aiRequests = 0
  /\ aiResponse = NoResponse
  /\ aiResult = NoResult

StoreInit ==
  /\ env \in Envs
  /\ configDoc \in ConfigDocs

\* one environment and one config document, for the runs that vary
\* something else
OneStoreInit ==
  /\ env = [VITE_GEMINI_API_KEY |-> "env-vite-key", API_KEY |-> Undefined]
  /\ configDoc = [exists |-> TRUE, geminiApiKey |-> "db-key"]

(***************************************************************************)
(* Auth context                                                            *)
(***************************************************************************)
\* null, where the source has an object or null
Null == [null |-> TRUE]

\* An email address, as what its '@' separates.
Email(local, domain) == [local |-> local, domain |-> domain]

\* the address of the strict admin check
ADMIN_EMAIL == Email("nikila2008", "gmail.com")

Emails == {ADMIN_EMAIL, Email("Nikila2008", "gmail.com"), Email("amara", "example.com")}

SignupNames == {"Amara"}

\* the uid the provider gives the account of an address
UidOf(email) == <<"uid", email.local, email.domain>>

\* an account the provider's console registered beforehand, with a display
\* name; accounts signup creates have none
ConsoleAdmin ==
  [uid |-> UidOf(ADMIN_EMAIL), email |-> ADMIN_EMAIL, displayName |-> "Nikila"]

NewAccount(email) == [uid |-> UidOf(email), email |-> email, displayName |-> Undefined]

Registered(email) == \E a \in accounts : a.email = email

\* String.prototype.toLowerCase over the local parts in use
LowerCase(local) == IF local = "Nikila2008" THEN "nikila2008" ELSE local

UserOfIgnoringCase(firebaseUser) ==
  [uid |-> firebaseUser.uid,
   name |-> Or(firebaseUser.displayName, Or(firebaseUser.email.local, "User")),
   email |-> firebaseUser.email,
   isAdmin |-> Email(LowerCase(firebaseUser.email.local), firebaseUser.email.domain)
                 = ADMIN_EMAIL]

\* the record the listener derives from a session
UserOf(firebaseUser) ==
  [uid |-> firebaseUser.uid,
   name |-> Or(firebaseUser.displayName, Or(firebaseUser.email.local, "User")),
   email |-> firebaseUser.email,
   isAdmin |-> firebaseUser.email = ADMIN_EMAIL]

\* the provider notes a change of the signed-in user for a subscribed
\* listener; it tells nothing when the user stays who it was
Notify(old, new) ==
  IF mounted = "yes" /\ old # new THEN Append(authEvents, new) ELSE authEvents

CanNotify(old, new) ==
  mounted = "yes" /\ old # new => Len(authEvents) < MaxEvents

IdleOp(result) == [pc |-> "idle", result |-> result]

\* useEffect: subscribe; the provider answers with the session it holds
Mount ==
  /\ mounted = "no"
  /\ mounted' = "yes"
  /\ authEvents' = <<session>>
  /\ UNCHANGED <<accounts, session, profiles, user, loading, loginOp, signupOp,
                 logoutOp, storeVars, aiVars, adminVars>>

UnmountLeavesListener ==
  /\ mounted = "yes"
  /\ mounted' = "gone"
  /\ UNCHANGED <<accounts, session, profiles, authEvents, user, loading, loginOp,
                 signupOp, logoutOp, storeVars, aiVars, adminVars>>

\* the effect's cleanup: unsubscribe; nothing pending is delivered any more
Unmount ==
  /\ mounted = "yes"
  /\ mounted' = "gone"
  /\ authEvents' = <<>>
  /\ UNCHANGED <<accounts, session, profiles, user, loading, loginOp, signupOp,
                 logoutOp, storeVars, aiVars, adminVars>>

\* the onAuthStateChanged callback, for the oldest undelivered change
AuthStateChanged ==
  /\ mounted = "yes"
  /\ authEvents # <<>>
  /\ LET firebaseUser == Head(authEvents)
     IN user' = IF firebaseUser # Null THEN UserOf(firebaseUser) ELSE Null
  /\ loading' = FALSE
  /\ authEvents' = Tail(authEvents)
  /\ UNCHANGED <<accounts, session, profiles, mounted, loginOp, signupOp,
                 logoutOp, storeVars, aiVars, adminVars>>

\* login, up to its await
login ==
  /\ loginOp.pc = "idle"
  /\ \E email \in Emails :
       loginOp' = [pc |-> "signIn", email |-> email, result |-> NoResult]
  /\ UNCHANGED <<accounts, session, profiles, authEvents, mounted, user, loading,
                 signupOp, logoutOp, storeVars, aiVars, adminVars>>

\* signInWithEmailAndPassword resolves
SignInSucceeds ==
  /\ loginOp.pc = "signIn"
  /\ \E a \in accounts :
       /\ a.email = loginOp.email
       /\ CanNotify(session, a)
       /\ session' = a
       /\ authEvents' = Notify(session, a)
  /\ loginOp' = IdleOp(Resolved("void"))
  /\ UNCHANGED <<accounts, profiles, mounted, user, loading, signupOp, logoutOp,
                 storeVars, aiVars, adminVars>>

\* signInWithEmailAndPassword throws (wrong credentials, network): login
\* lets it through
SignInFails ==
  /\ loginOp.pc = "signIn"
  /\ loginOp' = IdleOp(Rejected("auth-error"))
  /\ UNCHANGED <<accounts, session, profiles, authEvents, mounted, user, loading,
                 signupOp, logoutOp, storeVars, aiVars, adminVars>>

\* signup, up to its first await
signup ==
  /\ signupOp.pc = "idle"
  /\ \E name \in SignupNames, email \in Emails :
       signupOp' = [pc |-> "createUser", name |-> name, email |-> email,
                    result |-> NoResult]
  /\ UNCHANGED <<accounts, session, profiles, authEvents, mounted, user, loading,
                 loginOp, logoutOp, storeVars, aiVars, adminVars>>

\* createUserWithEmailAndPassword resolves: the account exists and is
\* signed in; signup goes on to its setDoc
CreateUserSucceeds ==
  /\ signupOp.pc = "createUser"
  /\ ~Registered(signupOp.email)
  /\ LET a == NewAccount(signupOp.email)
     IN /\ CanNotify(session, a)
        /\ accounts' = accounts \cup {a}
        /\ session' = a
        /\ authEvents' = Notify(session, a)
  /\ signupOp' = [signupOp EXCEPT !.pc = "setDoc"]
  /\ UNCHANGED <<profiles, mounted, user, loading, loginOp, logoutOp,
                 storeVars, aiVars, adminVars>>

\* createUserWithEmailAndPassword throws (address in use, weak password,
\* network): signup lets it through
CreateUserFails ==
  /\ signupOp.pc = "createUser"
  /\ signupOp' = [pc |-> "idle", email |-> signupOp.email,
                  result |-> Rejected("auth-error")]
  /\ UNCHANGED <<accounts, session, profiles, authEvents, mounted, user, loading,
                 loginOp, logoutOp, storeVars, aiVars, adminVars>>

ProfileDoc(uid, name, email) ==
  [uid |-> uid, name |-> name, email |-> email, joinedAt |-> "<ISO now>"]

\* setDoc(doc(db, "users", uid), data): the document of that uid is data
SetProfile(docs, data) == {d \in docs : d.uid # data.uid} \cup {data}

\* setDoc resolves
ProfileWriteSucceeds ==
  /\ signupOp.pc = "setDoc"
  /\ profiles' = SetProfile(profiles,
                   ProfileDoc(UidOf(signupOp.email), signupOp.name, signupOp.email))
  /\ signupOp' = [pc |-> "idle", email |-> signupOp.email,
                  result |-> Resolved("void")]
  /\ UNCHANGED <<accounts, session, authEvents, mounted, user, loading,
                 loginOp, logoutOp, storeVars, aiVars, adminVars>>

SignupAfterWriteErrorUndoes(accts, email, e) ==
  [accounts |-> {a \in accts : a.email # email}, result |-> Rejected(e)]

\* what signup does when its setDoc throws: nothing catches it, nothing is
\* undone
SignupAfterWriteError(accts, email, e) ==
  [accounts |-> accts, result |-> Rejected(e)]

\* setDoc throws
ProfileWriteFails ==
  /\ signupOp.pc = "setDoc"
  /\ LET after == SignupAfterWriteError(accounts, signupOp.email, "write-error")
     IN /\ accounts' = after.accounts
        /\ signupOp' = [pc |-> "idle", email |-> signupOp.email,
                        result |-> after.result]
  /\ UNCHANGED <<session, profiles, authEvents, mounted, user, loading,
                 loginOp, logoutOp, storeVars, aiVars, adminVars>>

\* logout, up to its await
logout ==
  /\ logoutOp.pc = "idle"
  /\ logoutOp' = [pc |-> "signOut", result |-> NoResult]
  /\ UNCHANGED <<accounts, session, profiles, authEvents, mounted, user, loading,
                 loginOp, signupOp, storeVars, aiVars, adminVars>>

\* signOut resolves; logout's continuation is still to run
SignOutSucceeds ==
  /\ logoutOp.pc = "signOut"
  /\ CanNotify(session, Null)
  /\ session' = Null
  /\ authEvents' = Notify(session, Null)
  /\ logoutOp' = [logoutOp EXCEPT !.pc = "setUser"]
  /\ UNCHANGED <<accounts, profiles, mounted, user, loading, loginOp, signupOp,
                 storeVars, aiVars, adminVars>>

\* the continuation after the await: setUser(null)
LogoutClearsUser ==
  /\ logoutOp.pc = "setUser"
  /\ user' = Null
  /\ logoutOp' = IdleOp(Resolved("void"))
  /\ UNCHANGED <<accounts, session, profiles, authEvents, mounted, loading,
                 loginOp, signupOp, storeVars, aiVars, adminVars>>

SignOutFailsAndRejects ==
  /\ logoutOp.pc = "signOut"
  /\ logoutOp' = IdleOp(Rejected("auth-error"))
  /\ UNCHANGED <<accounts, session, profiles, authEvents, mounted, user, loading,
                 loginOp, signupOp, storeVars, aiVars, adminVars>>

\* signOut throws: the catch block logs it
SignOutFails ==
  /\ logoutOp.pc = "signOut"
  /\ logoutOp' = IdleOp(Resolved("logged: Logout Error"))
  /\ UNCHANGED <<accounts, session, profiles, authEvents, mounted, user, loading,
                 loginOp, signupOp, storeVars, aiVars, adminVars>>

\* The state after construction: the provider may know the console's admin
\* account and may hold a session persisted by an earlier visit.
AuthInit ==
  /\ accounts \in {{}, {ConsoleAdmin}}
  /\ session \in {Null} \cup accounts
  /\ profiles = {}
  /\ authEvents = <<>>
  /\ mounted = "no"
  /\ user = Null
  /\ loading = TRUE
  /\ loginOp = IdleOp(NoResult)
  /\ signupOp = IdleOp(NoResult)
  /\ logoutOp = IdleOp(NoResult)

AuthNext ==
  \/ Mount
  \/ Unmount
  \/ AuthStateChanged
  \/ login
  \/ SignInSucceeds
  \/ SignInFails
  \/ signup
  \/ CreateUserSucceeds
  \/ CreateUserFails
  \/ ProfileWriteSucceeds
  \/ ProfileWriteFails
  \/ logout
  \/ SignOutSucceeds
  \/ LogoutClearsUser
  \/ SignOutFails

\* the auth provider is not in use during the runs of the AI service layer
AuthAtRest ==
  /\ accounts = {}
  /\ session = Null
  /\ authEvents = <<>>
  /\ mounted = "no"
  /\ user = Null
  /\ loading = TRUE
  /\ loginOp = IdleOp(NoResult)
  /\ signupOp = IdleOp(NoResult)
  /\ logoutOp = IdleOp(NoResult)

(***************************************************************************)
(* Admin dashboard: key panel and user panel                               *)
(***************************************************************************)
\* The characters of the key strings in use (a string is not taken apart
\* by the tools, so each one is spelled out here).
KeyStrings == {"", "  ", " AIzaK1 ", "AIzaK1", "AIzaK2", "db-key",
               "env-vite-key", "env-api-key"}

Chars(str) ==
  CASE str = "" -> <<>>
    [] str = "  " -> <<" ", " ">>
    [] str = " AIzaK1 " -> <<" ", "A", "I", "z", "a", "K", "1", " ">>
    [] str = "AIzaK1" -> <<"A", "I", "z", "a", "K", "1">>
    [] str = "AIzaK2" -> <<"A", "I", "z", "a", "K", "2">>
    [] str = "db-key" -> <<"d", "b", "-", "k", "e", "y">>
    [] str = "env-vite-key" ->
         <<"e", "n", "v", "-", "v", "i", "t", "e", "-", "k", "e", "y">>
    [] str = "env-api-key" ->
         <<"e", "n", "v", "-", "a", "p", "i", "-", "k", "e", "y">>

Str(chars) == CHOOSE str \in KeyStrings : Chars(str) = chars

IsSpace(ch) == ch \in {" ", "\t", "\n"}

RECURSIVE TrimStart(_)
TrimStart(chars) ==
  IF chars # <<>> /\ IsSpace(Head(chars)) THEN TrimStart(Tail(chars)) ELSE chars

RECURSIVE TrimEnd(_)
TrimEnd(chars) ==
  IF chars # <<>> /\ IsSpace(chars[Len(chars)])
  THEN TrimEnd(SubSeq(chars, 1, Len(chars) - 1))
  ELSE chars

\* String.prototype.trim
Trim(str) == Str(TrimEnd(TrimStart(Chars(str))))

\* key.slice(-4), as characters
Slice4(str) ==
  LET chars == Chars(str)
  IN SubSeq(chars, IF Len(chars) > 4 THEN Len(chars) - 3 ELSE 1, Len(chars))

ActiveKeyStatus(key) == [text |-> <<"Active Key: *********">> \o Slice4(key)]

\* what the admin may type into the key input
KeyInputs == {"  ", " AIzaK1 ", "AIzaK2"}

ALERT_SAVED == "Gemini API Key Saved Successfully!"
ALERT_SAVE_ERROR == "Error saving key"
ALERT_REMOVED == "API Key Removed"
ALERT_REMOVE_ERROR == "Error removing key"
ALERT_USER_DELETION ==
  "User deletion from Auth requires Admin SDK. Please disable account in Firebase Console."

\* what loadGlobalConfig writes to the console, given how its getDoc
\* settled
LoadLogged(read) == IF read.ok THEN "" ELSE "Error loading config"

\* loadGlobalConfig, given how its getDoc settled: the status it leaves.
\* A failed read is logged and the status stays what it was.
loadGlobalConfig(read, status) ==
  IF read.ok
  THEN IF read.exists /\ Truthy(read.geminiApiKey)
       THEN ActiveKeyStatus(read.geminiApiKey)
       ELSE Null
  ELSE status

AdminMountLoadOnly ==
  /\ ~adminMounted
  /\ adminMounted' = TRUE
  /\ loadOp' = [pc |-> "getDoc"]
  /\ UNCHANGED <<geminiKeyStatus, newGeminiKey, keyLoading, users, alertShown,
                 refreshOp, saveOp, deleteOp, storeVars, aiVars, authVars>>

\* the mount effect: loadGlobalConfig() and refreshUsers() are both started,
\* neither is awaited
AdminMount ==
  /\ ~adminMounted
  /\ adminMounted' = TRUE
  /\ loadOp' = [pc |-> "getDoc"]
  /\ refreshOp' = [pc |-> "getDocs", by |-> "mount effect"]
  /\ UNCHANGED <<geminiKeyStatus, newGeminiKey, keyLoading, users, alertShown,
                 saveOp, deleteOp, storeVars, aiVars, authVars>>

\* the getDoc of the mount effect's loadGlobalConfig settles
MountLoadSettles ==
  /\ loadOp.pc = "getDoc"
  /\ \E read \in Reads(configDoc) :
       /\ geminiKeyStatus' = loadGlobalConfig(read, geminiKeyStatus)
       /\ loadOp' = [pc |-> "idle", logged |-> LoadLogged(read)]
  /\ UNCHANGED <<adminMounted, newGeminiKey, keyLoading, users, alertShown,
                 refreshOp, saveOp, deleteOp, storeVars, aiVars, authVars>>

\* the refresh button
refreshUsers ==
  /\ adminMounted
  /\ refreshOp.pc = "idle"
  /\ refreshOp' = [pc |-> "getDocs", by |-> "refresh button"]
  /\ UNCHANGED <<adminMounted, geminiKeyStatus, newGeminiKey, keyLoading, users,
                 alertShown, loadOp, saveOp, deleteOp, storeVars, aiVars, authVars>>

\* getDocs resolves: the list is the documents of the collection
RefreshSucceeds ==
  /\ refreshOp.pc = "getDocs"
  /\ users' = profiles
  /\ refreshOp' = [pc |-> "idle"]
  /\ UNCHANGED <<adminMounted, geminiKeyStatus, newGeminiKey, keyLoading,
                 alertShown, loadOp, saveOp, deleteOp, storeVars, aiVars, authVars>>

\* getDocs throws: logged
RefreshFails ==
  /\ refreshOp.pc = "getDocs"
  /\ refreshOp' = [pc |-> "idle"]
  /\ UNCHANGED <<adminMounted, geminiKeyStatus, newGeminiKey, keyLoading, users,
                 alertShown, loadOp, saveOp, deleteOp, storeVars, aiVars, authVars>>

handleDeleteUserRemovesDoc ==
  /\ adminMounted
  /\ users # {}
  /\ \E u \in users : profiles' = profiles \ {u}
  /\ alertShown' = ALERT_USER_DELETION
  /\ UNCHANGED <<adminMounted, geminiKeyStatus, newGeminiKey, keyLoading, users,
                 loadOp, refreshOp, saveOp, deleteOp, storeVars, aiVars,
                 accounts, session, authEvents, mounted, user, loading,
                 loginOp, signupOp, logoutOp>>

\* handleDeleteUser: a confirm dialog, then at most an alert
handleDeleteUser ==
  /\ adminMounted
  /\ users # {}
  /\ \E confirmed \in BOOLEAN :
       alertShown' = IF confirmed THEN ALERT_USER_DELETION ELSE alertShown
  /\ UNCHANGED <<adminMounted, geminiKeyStatus, newGeminiKey, keyLoading, users,
                 loadOp, refreshOp, saveOp, deleteOp, storeVars, aiVars, authVars>>

\* onChange of the key input
TypeKey ==
  /\ adminMounted
  /\ \E text \in KeyInputs : newGeminiKey' = text
  /\ UNCHANGED <<adminMounted, geminiKeyStatus, keyLoading, users, alertShown,
                 loadOp, refreshOp, saveOp, deleteOp, storeVars, aiVars, authVars>>

handleSaveGeminiKeyUntrimmed ==
  /\ adminMounted
  /\ saveOp.pc = "idle"
  /\ IF Trim(newGeminiKey) = ""
     THEN /\ saveOp' = IdleOp(Resolved("returned early"))
          /\ UNCHANGED keyLoading
     ELSE /\ keyLoading' = TRUE
          /\ saveOp' = [pc |-> "setDoc", key |-> newGeminiKey, result |-> NoResult]
  /\ UNCHANGED <<adminMounted, geminiKeyStatus, newGeminiKey, users, alertShown,
                 loadOp, refreshOp, deleteOp, storeVars, aiVars, authVars>>

\* handleSaveGeminiKey, up to its first await (or its early return)
handleSaveGeminiKey ==
  /\ adminMounted
  /\ saveOp.pc = "idle"
  /\ IF Trim(newGeminiKey) = ""
     THEN /\ saveOp' = IdleOp(Resolved("returned early"))
          /\ UNCHANGED keyLoading
     ELSE /\ keyLoading' = TRUE
          /\ saveOp' = [pc |-> "setDoc", key |-> Trim(newGeminiKey),
                        result |-> NoResult]
  /\ UNCHANGED <<adminMounted, geminiKeyStatus, newGeminiKey, users, alertShown,
                 loadOp, refreshOp, deleteOp, storeVars, aiVars, authVars>>

\* setDoc(..., { geminiApiKey }, { merge: true }) resolves
SaveWriteSucceeds ==
  /\ saveOp.pc = "setDoc"
  /\ configDoc' = [exists |-> TRUE, geminiApiKey |-> saveOp.key]
  /\ alertShown' = ALERT_SAVED
  /\ newGeminiKey' = ""
  /\ saveOp' = [saveOp EXCEPT !.pc = "load"]
  /\ UNCHANGED <<adminMounted, geminiKeyStatus, keyLoading, users, loadOp,
                 refreshOp, deleteOp, env, aiVars, authVars>>

\* setDoc throws: catch alerts, finally clears keyLoading
SaveWriteFails ==
  /\ saveOp.pc = "setDoc"
  /\ alertShown' = ALERT_SAVE_ERROR
  /\ keyLoading' = FALSE
  /\ saveOp' = IdleOp(Resolved("error alerted"))
  /\ UNCHANGED <<adminMounted, geminiKeyStatus, newGeminiKey, users, loadOp,
                 refreshOp, deleteOp, storeVars, aiVars, authVars>>

\* the awaited loadGlobalConfig of the save handler settles; finally
SaveLoadSettles ==
  /\ saveOp.pc = "load"
  /\ \E read \in Reads(configDoc) :
       /\ geminiKeyStatus' = loadGlobalConfig(read, geminiKeyStatus)
       /\ saveOp' = [pc |-> "idle", result |-> Resolved("saved"),
                     logged |-> LoadLogged(read)]
  /\ keyLoading' = FALSE
  /\ UNCHANGED <<adminMounted, newGeminiKey, users, alertShown, loadOp,
                 refreshOp, deleteOp, storeVars, aiVars, authVars>>

\* handleDeleteGeminiKey, up to its first await (or its return when the
\* confirm dialog is declined)
handleDeleteGeminiKey ==
  /\ adminMounted
  /\ deleteOp.pc = "idle"
  /\ \E confirmed \in BOOLEAN :
       IF confirmed
       THEN /\ keyLoading' = TRUE
            /\ deleteOp' = [pc |-> "updateDoc", result |-> NoResult]
       ELSE /\ deleteOp' = IdleOp(Resolved("declined"))
            /\ UNCHANGED keyLoading
  /\ UNCHANGED <<adminMounted, geminiKeyStatus, newGeminiKey, users, alertShown,
                 loadOp, refreshOp, saveOp, storeVars, aiVars, authVars>>

\* updateDoc(..., { geminiApiKey: deleteField() }) resolves: the document
\* is there, with or without the field
DeleteWriteSucceeds ==
  /\ deleteOp.pc = "updateDoc"
  /\ configDoc.exists
  /\ configDoc' = [exists |-> TRUE, geminiApiKey |-> Undefined]
  /\ alertShown' = ALERT_REMOVED
  /\ deleteOp' = [deleteOp EXCEPT !.pc = "load"]
  /\ UNCHANGED <<adminMounted, geminiKeyStatus, newGeminiKey, keyLoading, users,
                 loadOp, refreshOp, saveOp, env, aiVars, authVars>>

DeleteAfterWriteErrorEscapes(alertNow) ==
  [alert |-> alertNow, keyLoading |-> TRUE, result |-> Rejected("store-error")]

\* what the delete handler does when updateDoc throws: catch alerts, finally
\* clears keyLoading, the handler's promise resolves
DeleteAfterWriteError(alertNow) ==
  [alert |-> ALERT_REMOVE_ERROR, keyLoading |-> FALSE,
   result |-> Resolved("error alerted")]

\* updateDoc throws: the document is missing (not-found), or the store
\* refuses or is out of reach
DeleteWriteFails ==
  /\ deleteOp.pc = "updateDoc"
  /\ LET after == DeleteAfterWriteError(alertShown)
     IN /\ alertShown' = after.alert
        /\ keyLoading' = after.keyLoading
        /\ deleteOp' = IdleOp(after.result)
  /\ UNCHANGED <<adminMounted, geminiKeyStatus, newGeminiKey, users, loadOp,
                 refreshOp, saveOp, storeVars, aiVars, authVars>>

\* the awaited loadGlobalConfig of the delete handler settles; finally
DeleteLoadSettles ==
  /\ deleteOp.pc = "load"
  /\ \E read \in Reads(configDoc) :
       /\ geminiKeyStatus' = loadGlobalConfig(read, geminiKeyStatus)
       /\ deleteOp' = [pc |-> "idle", result |-> Resolved("removed"),
                       logged |-> LoadLogged(read)]
  /\ keyLoading' = FALSE
  /\ UNCHANGED <<adminMounted, newGeminiKey, users, alertShown, loadOp,
                 refreshOp, saveOp, storeVars, aiVars, authVars>>

AdminInit ==
  /\ adminMounted = FALSE
  /\ geminiKeyStatus = Null
  /\ newGeminiKey = ""
  /\ keyLoading = FALSE
  /\ users = {}
  /\ alertShown = ""
  /\ loadOp = [pc |-> "idle"]
  /\ refreshOp = [pc |-> "idle"]
  /\ saveOp = IdleOp(NoResult)
  /\ deleteOp = IdleOp(NoResult)

AdminNext ==
  \/ AdminMount
  \/ MountLoadSettles
  \/ refreshUsers
  \/ RefreshSucceeds
  \/ RefreshFails
  \/ handleDeleteUser
  \/ TypeKey
  \/ handleSaveGeminiKey
  \/ SaveWriteSucceeds
  \/ SaveWriteFails
  \/ SaveLoadSettles
  \/ handleDeleteGeminiKey
  \/ DeleteWriteSucceeds
  \/ DeleteWriteFails
  \/ DeleteLoadSettles

\* profile documents signups of earlier visits left in the collection
StoredProfiles ==
  {{}, {ProfileDoc(UidOf(Email("amara", "example.com")), "Amara",
                   Email("amara", "example.com"))}}

(***************************************************************************)
(* Specifications                                                          *)
(***************************************************************************)
AuthIdle == AuthAtRest /\ profiles = {}

SpecAuthInit == OneStoreInit /\ AIInit /\ AuthInit /\ AdminInit

\* the auth context: login, signup and logout may be in flight together
SpecAuth == SpecAuthInit /\ [][AuthNext]_vars

SpecAdminInit ==
  /\ env = [VITE_GEMINI_API_KEY |-> "env-vite-key", API_KEY |-> Undefined]
  /\ configDoc \in ConfigDocs
  /\ AIInit
  /\ AuthAtRest
  /\ profiles \in StoredProfiles
  /\ AdminInit

\* the admin dashboard over every config document
SpecAdmin == SpecAdminInit /\ [][AdminNext]_vars

AINext ==
  \/ analyzeHoroscopeAdvanced
  \/ getHoroscopeReading
  \/ getPorondamReading
  \/ analyzeAncientManuscript
  \/ ConfigReadSucceeds
  \/ ConfigReadFails
  \/ GenerationReturns
  \/ GenerationThrows
  \/ ResultDelivered

SpecAIInit == OneStoreInit /\ AIInit /\ AuthIdle /\ AdminInit

\* the four invocation functions over every argument list within the
\* bounds: one environment, one config document, a few answers
SpecAI == SpecAIInit /\ [][AINext]_vars

\* one argument list per function and variant
PlainCalls ==
  {c \in AdvancedCalls : c.lang = "si" /\ c.images = <<>> /\ c.history = <<>>}
  \cup {c \in HoroscopeCalls \cup PorondamCalls : c.lang = "si"}
  \cup {c \in ManuscriptCalls : c.lang = "si" /\ c.image = ImageA}

InvokeAny == \E c \in PlainCalls : Invoke(c)

KeyNext ==
  \/ InvokeAny
  \/ ConfigReadSucceeds
  \/ ConfigReadFails
  \/ GenerationReturns
  \/ GenerationThrows
  \/ ResultDelivered

SpecKeyInit == StoreInit /\ AIInit /\ AuthIdle /\ AdminInit

\* the credential resolver over every environment and config document
SpecKey == SpecKeyInit /\ [][KeyNext]_vars

GenerationReturnsText == GenerationResolves(Answers(Texts))

CleanNext ==
  \/ InvokeAny
  \/ ConfigReadSucceeds
  \/ ConfigReadFails
  \/ GenerationReturnsText
  \/ GenerationThrows
  \/ ResultDelivered

SpecCleanInit == OneStoreInit /\ AIInit /\ AuthIdle /\ AdminInit

\* the post-processing of the four functions over every answer text within
\* the bounds
SpecClean == SpecCleanInit /\ [][CleanNext]_vars

\* one call of an invocation function, for the runs about the key panel
PanelCalls == {c \in HoroscopeCalls : c.module = "generate" /\ c.lang = "si"}

InvokeFromApp == \E c \in PanelCalls : Invoke(c)

\* one answer with text is enough where the key is what matters
GenerationReturnsPlain == GenerationResolves({TextResponse(<<"x">>)})

\* the dashboard's handlers that call the store
PanelNext ==
  \/ AdminMount
  \/ MountLoadSettles
  \/ refreshUsers
  \/ RefreshSucceeds
  \/ RefreshFails
  \/ TypeKey
  \/ handleSaveGeminiKey
  \/ SaveWriteSucceeds
  \/ SaveWriteFails
  \/ SaveLoadSettles
  \/ handleDeleteGeminiKey
  \/ DeleteWriteSucceeds
  \/ DeleteWriteFails
  \/ DeleteLoadSettles
  \/ InvokeFromApp
  \/ ConfigReadSucceeds
  \/ ConfigReadFails
  \/ GenerationReturnsPlain
  \/ GenerationThrows
  \/ ResultDelivered

\* a config document that holds no key: there is none yet, or it has no
\* geminiApiKey field
SpecPanelInit ==
  /\ env = [VITE_GEMINI_API_KEY |-> "env-vite-key", API_KEY |-> Undefined]
  /\ configDoc \in {d \in ConfigDocs : d.geminiApiKey = Undefined}
  /\ AIInit
  /\ AuthIdle
  /\ AdminInit

\* the admin dashboard next to an app that invokes the AI service: the key
\* the panel stores is the key the service reads
SpecPanel == SpecPanelInit /\ [][PanelNext]_vars

\* login, signup and logout called by the app while the admin works the
\* user panel; the auth listener plays no part in what is stored
UsersNext ==
  \/ login
  \/ SignInSucceeds
  \/ SignInFails
  \/ signup
  \/ CreateUserSucceeds
  \/ CreateUserFails
  \/ ProfileWriteSucceeds
  \/ ProfileWriteFails
  \/ logout
  \/ SignOutSucceeds
  \/ LogoutClearsUser
  \/ SignOutFails
  \/ AdminMount
  \/ MountLoadSettles
  \/ refreshUsers
  \/ RefreshSucceeds
  \/ RefreshFails
  \/ handleDeleteUser

SpecUsersInit == OneStoreInit /\ AIInit /\ AuthInit /\ AdminInit

\* the users collection under the auth operations and the user panel
SpecUsers == SpecUsersInit /\ [][UsersNext]_vars

(***************************************************************************)
(* Properties of the AI service layer                                      *)
(***************************************************************************)
AiReturned == aiPc = "done" /\ aiResult.status = "resolved"

\* C1: whatever text the generation API answers with, the string an
\* invocation function returns holds neither the three-backtick marker nor
\* the three-backtick-html marker, also when removing a marker brings the
\* backticks on its two sides together.
C1_ReturnHoldsNoFence ==
  AiReturned =>
    /\ ~Includes(aiResult.value, Fence)
    /\ ~Includes(aiResult.value, FenceHtml)

\* the answer was one backtick, the html marker, two backticks: removing the
\* marker joins the three backticks left and right of it
C1_Witness ==
  /\ AiReturned
  /\ aiCall.fn = "getPorondamReading"
  /\ aiResponse.kind = "text"
  /\ aiResponse.text = <<BT>> \o FenceHtml \o <<BT, BT>>
  /\ aiResult.value = <<>>

IsSet(k) == k # Undefined /\ k # ""

\* the environment default, the empty key when neither variable is set
EnvDefaultKey ==
  IF IsSet(env.VITE_GEMINI_API_KEY) THEN env.VITE_GEMINI_API_KEY
  ELSE IF IsSet(env.API_KEY) THEN env.API_KEY
  ELSE ""

AiClientBuilt == aiPc \in {"request", "done"} /\ aiRead.done

\* C3: when the read of the config document succeeds, the client's key is
\* the document's geminiApiKey if that field is there and not empty,
\* whatever the environment default is, and the environment default (the
\* empty key when none is set) if the document does not exist or its field
\* is missing or empty.
C3_ResolvedKey ==
  AiClientBuilt /\ aiRead.ok =>
    aiKey = IF configDoc.exists /\ IsSet(configDoc.geminiApiKey)
            THEN configDoc.geminiApiKey
            ELSE EnvDefaultKey

C3_Witness ==
  /\ AiClientBuilt /\ aiRead.ok
  /\ env.VITE_GEMINI_API_KEY = "env-vite-key"
  /\ configDoc.geminiApiKey = "db-key"
  /\ aiKey = "db-key"

\* C4: getAIClient never throws: after a failed read of the config document
\* the call goes on to issue its request, with a client built with the
\* environment default, or with the empty key when none is set.
C4_ReadFailureSwallowed ==
  aiRead.done /\ ~aiRead.ok =>
    /\ aiPc \in {"request", "done"}
    /\ aiRequests >= 1
    /\ aiResult.status = "rejected" => aiResponse.kind = "error"
    /\ aiKey = EnvDefaultKey

C4_Witness ==
  /\ aiRead.done /\ ~aiRead.ok
  /\ aiPc = "request"
  /\ configDoc.geminiApiKey = "db-key"
  /\ ~IsSet(env.VITE_GEMINI_API_KEY) /\ ~IsSet(env.API_KEY)
  /\ aiKey = ""

AdvancedInFlight == aiPc = "request" /\ aiCall.fn = "analyzeHoroscopeAdvanced"

TextsOf(parts) == SelectSeq(parts, IsTextPart)
ImagesIn(parts) == SelectSeq(parts, IsImagePart)

\* the image parts carry, in order, the payloads of the images
CarriesImages(parts, images) ==
  /\ Len(ImagesIn(parts)) = Len(images)
  /\ \A k \in 1..Len(images) :
       Len(images[k]) = 2 => ImagesIn(parts)[k].inlineData.data = images[k][2]

\* C5: analyzeHoroscopeAdvanced sends the prior turns in their order, each
\* with its role, its text and its images, and after them exactly one
\* user-role turn with one image part per newly attached image and exactly
\* one text part, the composed text; with no history and no images the
\* request is that one turn with the text part alone.
C5_RequestShape ==
  AdvancedInFlight =>
    LET turns == aiRequest.contents
        n == Len(aiCall.history)
        last == turns[Len(turns)]
    IN /\ Len(turns) = n + 1
       /\ \A i \in 1..n :
            /\ turns[i].role = aiCall.history[i].role
            /\ TextsOf(turns[i].parts) = <<[text |-> aiCall.history[i].text]>>
            /\ CarriesImages(turns[i].parts, ImagesOf(aiCall.history[i]))
            /\ Len(turns[i].parts) = 1 + Len(ImagesOf(aiCall.history[i]))
       /\ last.role = "user"
       /\ CarriesImages(last.parts, aiCall.images)
       /\ Len(TextsOf(last.parts)) = 1
       /\ Len(last.parts) = Len(aiCall.images) + 1
       /\ LET text == TextsOf(last.parts)[1].text
          IN /\ text[1] = "[SYSTEM_DATA]: CURRENT_DATE = "
             /\ text[Len(text)] = aiCall.userMessage
       /\ (n = 0 /\ aiCall.images = <<>>) =>
            /\ Len(turns) = 1
            /\ Len(turns[1].parts) = 1
            /\ IsTextPart(turns[1].parts[1])

\* two prior turns, one of them with images, and a newly attached image
C5_Witness ==
  /\ AdvancedInFlight
  /\ Len(aiCall.history) = 2
  /\ Len(ImagesOf(aiCall.history[1])) = 2
  /\ Len(aiCall.images) >= 1
  /\ Len(aiRequest.contents) = 3

\* the text the function built for the turn it adds
PromptText == TextsOf(aiRequest.contents[Len(aiRequest.contents)].parts)[1].text

PromptHolds(s) == \E i \in 1..Len(PromptText) : PromptText[i] = s

PromptHoldsPair(s, t) ==
  \E i \in 1..(Len(PromptText) - 1) : PromptText[i] = s /\ PromptText[i + 1] = t

\* C6, as claimed: the prompt of each of the four functions holds the fixed
\* Sinhala-formal directive when the selector is "si" and the fixed English
\* directive otherwise.
C6_DirectiveInEveryPrompt ==
  aiPc = "request" =>
    IF aiCall.lang = "si" THEN PromptHolds(SI_DIRECTIVE) ELSE PromptHolds(EN_DIRECTIVE)

\* C6, amended: analyzeHoroscopeAdvanced puts the fixed Sinhala-formal
\* directive (selector "si") or the fixed English directive (any other
\* selector) into its prompt; the three single-shot functions put
\* "Language: Sinhala" (selector "si") or "Language: English" (any other
\* selector) into theirs, and neither of the two directives.
C6_DirectivePerFunction ==
  aiPc = "request" =>
    IF aiCall.fn = "analyzeHoroscopeAdvanced"
    THEN IF aiCall.lang = "si"
         THEN PromptHolds(SI_DIRECTIVE) /\ ~PromptHolds(EN_DIRECTIVE)
         ELSE PromptHolds(EN_DIRECTIVE) /\ ~PromptHolds(SI_DIRECTIVE)
    ELSE /\ IF aiCall.lang = "si"
            THEN PromptHoldsPair("Language: ", "Sinhala")
            ELSE PromptHoldsPair("Language: ", "English")
         /\ ~PromptHolds(SI_DIRECTIVE) /\ ~PromptHolds(EN_DIRECTIVE)

C6_Witness ==
  /\ aiPc = "request"
  /\ aiCall.fn = "analyzeAncientManuscript"
  /\ aiCall.lang = "ta"
  /\ PromptHoldsPair("Language: ", "English")

\* C9: a call issues exactly one request to the generation service and
\* writes nothing to the document store; when the request fails it is not
\* issued again and the call rejects with that error.
C9_OneRequestNoWrite ==
  [][/\ configDoc' = configDoc
     /\ (aiPc = "request" /\ aiPc' = "done") => aiRequests' = 1
     /\ (aiPc = "request" /\ aiResponse'.kind = "error") =>
          /\ aiPc' = "done"
          /\ aiRequests' = aiRequests
          /\ aiResult' = Rejected(aiResponse'.error)]_vars

C9_Witness ==
  /\ aiPc = "done"
  /\ aiResult.status = "rejected"
  /\ aiResult.error = "api-error"
  /\ aiRequests = 1

AnswerHasNoText ==
  \/ aiResponse.kind = "notext"
  \/ aiResponse.kind = "text" /\ aiResponse.text = <<>>

\* C10: when the generation API answers without text (empty or missing),
\* each of the four functions, in either variant of the service module,
\* returns its fixed fallback string, which is not empty.
C10_FallbackOnNoText ==
  aiPc = "done" /\ AnswerHasNoText =>
    /\ aiResult.status = "resolved"
    /\ aiResult.value = Fallback(aiCall.fn)
    /\ aiResult.value # <<>>

(***************************************************************************)
(* Properties of the auth context                                          *)
(***************************************************************************)
\* C2: in every state the auth context reaches, a user that is not null
\* carries the uid and the email of an account of the provider, and its
\* isAdmin is true if and only if that email is the fixed admin address,
\* character for character (no case folding): the flag is computed from the
\* session of each change, never kept from the one before.
C2_AdminIffExactEmail ==
  user # Null =>
    \E a \in accounts :
      /\ a.uid = user.uid
      /\ a.email = user.email
      /\ user.isAdmin <=> (a.email.local = "nikila2008" /\ a.email.domain = "gmail.com")

\* the address that differs from the admin's in case only is signed in, and
\* the admin's account exists
C2_Witness ==
  /\ user # Null
  /\ user.email.local = "Nikila2008"
  /\ user.email.domain = "gmail.com"
  /\ ~user.isAdmin
  /\ \E a \in accounts : a.email.local = "nikila2008"

HasProfile(email) == \E d \in profiles : d.uid = UidOf(email)

\* C7: when signup's account creation succeeded and its profile write
\* threw, signup has rejected with the write error, the account exists
\* (nothing deleted it) and no profile document exists for its uid; signup
\* resolves only with the profile document written.
C7_SignupWriteFailure ==
  /\ signupOp.result = Rejected("write-error") =>
       /\ signupOp.pc = "idle"
       /\ Registered(signupOp.email)
       /\ ~HasProfile(signupOp.email)
  /\ signupOp.result.status = "resolved" =>
       Registered(signupOp.email) /\ HasProfile(signupOp.email)

C7_Witness ==
  /\ signupOp.result.status = "rejected"
  /\ signupOp.result.error = "write-error"
  /\ Registered(signupOp.email)
  /\ ~HasProfile(signupOp.email)
  /\ session # Null /\ session.email = signupOp.email

EventsHandled == mounted = "yes" /\ authEvents = <<>>

\* C12: after any interleaving of login, signup, logout and session-change
\* events, once the latest session change has been handled and no logout is
\* in flight, the local user is null exactly when there is no session, and
\* otherwise carries the uid and the email of the session.
C12_UserMatchesSession ==
  EventsHandled /\ logoutOp.pc = "idle" =>
    /\ user = Null <=> session = Null
    /\ session # Null => user.uid = session.uid /\ user.email = session.email

\* C16: the listener is subscribed once, at mount, and unsubscribed at
\* unmount, for good; from then on no session change is queued for it or
\* handed to it: loading stays what it was, and the user changes only by
\* the setUser(null) of a logout that was in flight, never by a session
\* change.
C16_NoDeliveryAfterTeardown ==
  [][/\ mounted' # mounted =>
          \/ mounted = "no" /\ mounted' = "yes"
          \/ mounted = "yes" /\ mounted' = "gone"
     /\ mounted = "gone" =>
          /\ authEvents' = <<>>
          /\ loading' = loading
          /\ user' # user => logoutOp.pc = "setUser" /\ user' = Null]_vars

\* after the teardown the provider holds the session of another account
\* than the one the torn-down context last showed
C16_Witness ==
  /\ mounted = "gone"
  /\ user # Null
  /\ session # Null
  /\ session.uid # user.uid
  /\ loginOp.result.status = "resolved"

(***************************************************************************)
(* Properties of the admin dashboard                                       *)
(***************************************************************************)
\* C8: no exception escapes handleDeleteGeminiKey: its promise never
\* rejects; when it completes after a confirmed deletion keyLoading is
\* false; and when the store's field deletion threw (the config document is
\* missing, or the store failed) the handler completes with the
\* "Error removing key" alert shown.
C8_DeleteNeverThrows ==
  [][/\ deleteOp'.result.status # "rejected"
     /\ (deleteOp.pc # "idle" /\ deleteOp'.pc = "idle") => ~keyLoading'
     /\ (deleteOp.pc = "updateDoc" /\ deleteOp'.pc = "idle") =>
          alertShown' = ALERT_REMOVE_ERROR]_vars

\* the deletion was tried on a missing config document
C8_Witness ==
  /\ deleteOp.pc = "idle"
  /\ deleteOp.result.status = "resolved"
  /\ deleteOp.result.value = "error alerted"
  /\ ~configDoc.exists
  /\ alertShown = ALERT_REMOVE_ERROR
  /\ ~keyLoading

(***************************************************************************)
(* Properties of the dashboard next to the AI service                      *)
(***************************************************************************)
\* the operations that await their outbound calls one after the other
AwaitingHandlers ==
  {"invocation", "handleSaveGeminiKey", "handleDeleteGeminiKey", "refreshUsers"}

MOUNT_EFFECT == "mount effect"

\* the outbound calls an operation has started and not yet seen settle
CallsInFlight(op) ==
  CASE op = "invocation" ->
         IF aiPc = "client" THEN {"getDoc"}
         ELSE IF aiPc = "request" THEN {"generateContent"} ELSE {}
    [] op = "handleSaveGeminiKey" ->
         IF saveOp.pc = "setDoc" THEN {"setDoc"}
         ELSE IF saveOp.pc = "load" THEN {"getDoc"} ELSE {}
    [] op = "handleDeleteGeminiKey" ->
         IF deleteOp.pc = "updateDoc" THEN {"updateDoc"}
         ELSE IF deleteOp.pc = "load" THEN {"getDoc"} ELSE {}
    [] op = "refreshUsers" ->
         IF refreshOp.pc = "getDocs" /\ refreshOp.by = "refresh button"
         THEN {"getDocs"} ELSE {}
    [] op = MOUNT_EFFECT ->
         (IF loadOp.pc = "getDoc" THEN {"getDoc"} ELSE {})
         \cup (IF refreshOp.pc = "getDocs" /\ refreshOp.by = MOUNT_EFFECT
               THEN {"getDocs"} ELSE {})

\* C13, as claimed: no operation, the dashboard's mount effect included, has
\* two outbound calls in flight at the same time.
C13_NoTwoCallsInFlight ==
  \A op \in AwaitingHandlers \cup {MOUNT_EFFECT} :
    Cardinality(CallsInFlight(op)) <= 1

\* C13, amended: an invocation function (its getAIClient included),
\* handleSaveGeminiKey, handleDeleteGeminiKey and refreshUsers each have at
\* most one outbound call in flight; the mount effect starts its config read
\* and its users read together, so both are in flight once it has run.
C13_SequentialButMountEffect ==
  [][/\ \A op \in AwaitingHandlers : Cardinality(CallsInFlight(op)') <= 1
     /\ (~adminMounted /\ adminMounted') =>
          CallsInFlight(MOUNT_EFFECT)' = {"getDoc", "getDocs"}]_vars

\* the save handler is at its second call, the reload, while the two reads
\* of the mount effect are both still out
C13_Witness ==
  /\ CallsInFlight(MOUNT_EFFECT) = {"getDoc", "getDocs"}
  /\ CallsInFlight("handleSaveGeminiKey") = {"getDoc"}
  /\ CallsInFlight("invocation") = {"generateContent"}

\* a reload of the key status has just settled with its getDoc failed
LoadJustFailed ==
  \/ loadOp.pc = "getDoc" /\ loadOp'.pc = "idle" /\ loadOp'.logged = "Error loading config"
  \/ saveOp.pc = "load" /\ saveOp'.pc = "idle" /\ saveOp'.logged = "Error loading config"
  \/ /\ deleteOp.pc = "load" /\ deleteOp'.pc = "idle"
     /\ deleteOp'.logged = "Error loading config"

\* C14: whenever loading the key status fails, the key panel shows the "no
\* key" state afterwards (the status is null), whatever it showed before.
C14_FailedLoadShowsNoKey ==
  [][LoadJustFailed => geminiKeyStatus' = Null]_vars

\* s is t without its leading and trailing whitespace, said without trim()
IsTrimOf(s, t) ==
  LET cs == Chars(s)
      ct == Chars(t)
  IN /\ cs # <<>> => ~IsSpace(cs[1]) /\ ~IsSpace(cs[Len(cs)])
     /\ \E i \in 0..Len(ct) :
          /\ i + Len(cs) <= Len(ct)
          /\ SubSeq(ct, i + 1, i + Len(cs)) = cs
          /\ \A k \in 1..Len(ct) : (k <= i \/ k > i + Len(cs)) => IsSpace(ct[k])

\* the key a client is to be built with, given the config document as it
\* is in the store now
KeyInForce ==
  IF configDoc.exists /\ IsSet(configDoc.geminiApiKey)
  THEN configDoc.geminiApiKey
  ELSE EnvDefaultKey

SaveWritten == saveOp.pc = "setDoc" /\ saveOp'.pc = "load"
DeleteWritten == deleteOp.pc = "updateDoc" /\ deleteOp'.pc = "load"

\* C15: a successful save stores the trimmed form of the key the admin
\* typed, a successful delete removes the field, nothing else changes the
\* config document, and every invocation whose config read succeeds builds
\* its client from the document as it is at that read: with the stored key
\* after a save, with the environment default after a delete. No key is
\* kept from an earlier read.
C15_StoredKeyIsUsed ==
  [][/\ (saveOp.pc = "idle" /\ saveOp'.pc = "setDoc") =>
          IsTrimOf(saveOp'.key, newGeminiKey)
     /\ SaveWritten => configDoc' = [exists |-> TRUE, geminiApiKey |-> saveOp.key]
     /\ DeleteWritten => ~IsSet(configDoc'.geminiApiKey)
     /\ configDoc' # configDoc => SaveWritten \/ DeleteWritten
     /\ (aiPc = "client" /\ aiPc' = "request" /\ aiRead'.ok) =>
          aiKey' = KeyInForce]_vars

\* an invocation's client holds the trimmed key of a save that went
\* through, after an earlier delete had put the environment default in force
C15_Witness ==
  /\ aiPc = "request"
  /\ aiRead.ok
  /\ aiKey = "AIzaK1"
  /\ saveOp.pc = "idle"
  /\ saveOp.result.status = "resolved"
  /\ saveOp.result.value = "saved"
  /\ deleteOp.pc = "idle"
  /\ deleteOp.result.status = "resolved"
  /\ deleteOp.result.value = "removed"
  /\ configDoc.geminiApiKey = "AIzaK1"

\* nothing but whitespace, said without trim()
IsBlank(t) == \A k \in 1..Len(Chars(t)) : IsSpace(Chars(t)[k])

\* the geminiApiKey field is absent, or a string that is not empty and
\* neither starts nor ends with whitespace
KeyFieldWellFormed(d) ==
  \/ d.geminiApiKey = Undefined
  \/ /\ d.exists
     /\ Chars(d.geminiApiKey) # <<>>
     /\ ~IsSpace(Head(Chars(d.geminiApiKey)))
     /\ ~IsSpace(Chars(d.geminiApiKey)[Len(Chars(d.geminiApiKey))])

\* C18: from a config document without a key, whatever saves and deletes
\* the admin does, the geminiApiKey field stays absent or a non-empty string
\* without leading or trailing whitespace; and a save with an empty or
\* whitespace-only input returns at once: nothing is written or left to be
\* written, keyLoading and the alert stay as they were; any other input
\* sets keyLoading and goes on to the write.
C18_KeyFieldWellFormed ==
  [][/\ KeyFieldWellFormed(configDoc')
     /\ (saveOp.pc = "idle" /\ saveOp' # saveOp) =>
          IF IsBlank(newGeminiKey)
          THEN /\ saveOp'.pc = "idle"
               /\ configDoc' = configDoc
               /\ keyLoading' = keyLoading
               /\ alertShown' = alertShown
          ELSE saveOp'.pc = "setDoc" /\ keyLoading']_vars

\* a save of a whitespace-only input has returned early, after an earlier
\* save had stored the key typed with blanks around it
C18_Witness ==
  /\ saveOp.pc = "idle"
  /\ saveOp.result.status = "resolved"
  /\ saveOp.result.value = "returned early"
  /\ newGeminiKey = "  "
  /\ configDoc.geminiApiKey = "AIzaK1"
  /\ alertShown = ALERT_SAVED
  /\ ~keyLoading

(***************************************************************************)
(* Properties of the users collection                                      *)
(***************************************************************************)
\* C17: the users collection changes only by the setDoc of a signup whose
\* account creation went through, which adds the profile document of that
\* account; no document is changed or removed; login, logout, refreshUsers
\* and the delete-user action, confirmed or cancelled, leave the collection
\* as it is; so every profile document belongs to a created account.
C17_ProfilesOnlyBySignup ==
  [][/\ profiles' # profiles =>
          /\ signupOp.pc = "setDoc"
          /\ Registered(signupOp.email)
          /\ profiles' = profiles \cup
               {ProfileDoc(UidOf(signupOp.email), signupOp.name, signupOp.email)}
     /\ profiles \subseteq profiles'
     /\ alertShown' # alertShown => users' = users
     /\ \A d \in profiles' : \E a \in accounts' : a.uid = d.uid]_vars

\* the panel lists a signed-up user, the admin has confirmed its deletion,
\* and the profile document is still there
C17_Witness ==
  /\ profiles # {}
  /\ users = profiles
  /\ alertShown = ALERT_USER_DELETION
  /\ logoutOp.result.status = "resolved"
  /\ loginOp.result.status = "resolved"

====
